---- MODULE Spec2Model ----
(***************************************************************************)
(* Model of src/vga_buffer.rs: the VGA text-mode Writer (write_byte,       *)
(* write_string, new_line, clear_row) and the global WRITER behind a spin  *)
(* lock used by _print.                                                    *)
(***************************************************************************)
EXTENDS Integers, Sequences, FiniteSets, TLC

VARIABLES
    column_position,  \* Writer.column_position
    color_code,       \* Writer.color_code (a ColorCode byte)
    buffer,           \* Writer.buffer.chars : [row -> [col -> ScreenChar]]
    panicked,         \* TRUE once an array index was out of bounds (Rust panic)
    advances,         \* history: number of new_line calls made by the last operation
    stores,           \* history: the write_byte cell stores <<row, col, byte>> of the last operation
    line,             \* history: the bytes write_byte stored since the most recent new_line
    scrolled,         \* history: TRUE once new_line has been called
    lastOp,           \* history: the last operation and its argument
    nops,             \* number of operations performed so far
    locked,           \* spin::Mutex lock flag of WRITER
    pc,               \* per caller: position inside _print
    pending,          \* per caller: bytes of the current _print call not yet written
    issued,           \* history: the strings passed to _print, in call order
    ncalls,           \* number of _print calls started so far
    result,           \* per caller: what write_fmt returned to its last _print call
    macro,            \* per caller: the macro of its last _print call (print or println)
    boot,             \* what the text buffer held when WRITER was constructed
    once,             \* state of the Once cell behind the lazy static WRITER
    nconstructed,     \* history: number of times the initializer of WRITER has run
    arg_foreground,   \* argument of the last call of ColorCode::new
    arg_background,   \* argument of the last call of ColorCode::new
    encoded           \* the ColorCode byte the last call of ColorCode::new returned

vars == <<column_position, color_code, buffer, panicked, advances, stores,
          line, scrolled, lastOp, nops, locked, pc, pending, issued, ncalls, result,
          macro, boot,
          once, nconstructed, arg_foreground, arg_background, encoded>>

writerVars == <<column_position, color_code, buffer, panicked, advances, stores,
                line, scrolled>>
opVars == <<lastOp, nops>>
printVars == <<locked, pc, pending, issued, ncalls, result, macro>>
colorVars == <<arg_foreground, arg_background, encoded>>
envVars == <<boot, once, nconstructed, colorVars>>

----------------------------------------------------------------------------
(* Bounds *)
MaxOps == 3
MaxCalls == 2
MaxIrqs == 1
NumCallers == 2

----------------------------------------------------------------------------
(* Program constants *)
BUFFER_HEIGHT == 25
BUFFER_WIDTH == 80
NEWLINE == 10
SPACE == 32
PRINTABLE_LO == 32
PRINTABLE_HI == 126
GLYPH == 254

Color == [Black |-> 0, Blue |-> 1, Green |-> 2, Cyan |-> 3, Red |-> 4,
          Magenta |-> 5, Brown |-> 6, LightGray |-> 7, DarkGray |-> 8,
          LightBlue |-> 9, LightGreen |-> 10, LightCyan |-> 11,
          LightRed |-> 12, Pink |-> 13, Yellow |-> 14, White |-> 15]

RECURSIVE BitOr(_, _)
BitOr(a, b) ==
    IF a = 0 THEN b
    ELSE IF b = 0 THEN a
    ELSE (IF (a % 2 = 1) \/ (b % 2 = 1) THEN 1 ELSE 0) + 2 * BitOr(a \div 2, b \div 2)

\* the discriminants of the enum
Palette == {Color[name] : name \in DOMAIN Color}

\* ColorCode::new with a shift by 3
ColorCode_new_short_shift(foreground, background) ==
    BitOr((background * 8) % 256, foreground)

\* (background as u8) << 4 | (foreground as u8), in u8 arithmetic
ColorCode_new(foreground, background) ==
    BitOr((background * 16) % 256, foreground)

\* ScreenChar with the two fields exchanged
ScreenChar_swapped(byte, cc) == [ascii_character |-> cc, color_code |-> byte]

ScreenChar(byte, cc) == [ascii_character |-> byte, color_code |-> cc]

Rows == 0 .. (BUFFER_HEIGHT - 1)
Cols == 0 .. (BUFFER_WIDTH - 1)

----------------------------------------------------------------------------
(* The Writer as a value: the fields of the struct plus the history fields *)
Self ==
    [column_position |-> column_position, color_code |-> color_code,
     buffer |-> buffer, panicked |-> panicked, advances |-> 0, stores |-> <<>>,
     line |-> line, scrolled |-> scrolled]

Commit(w) ==
    /\ column_position' = w.column_position
    /\ color_code' = w.color_code
    /\ buffer' = w.buffer
    /\ panicked' = w.panicked
    /\ advances' = w.advances
    /\ stores' = w.stores
    /\ line' = w.line
    /\ scrolled' = w.scrolled

\* clear_row that blanks with the color the firmware uses, light gray on black
clear_row_default_color(w, row) ==
    LET blank == ScreenChar(SPACE, ColorCode_new(Color.LightGray, Color.Black))
    IN  [w EXCEPT !.buffer[row] = [col \in Cols |-> blank]]

\* clear_row with the loop bound of new_line's inner loop (BUFFER_HEIGHT)
clear_row_short(w, row) ==
    LET blank == ScreenChar(SPACE, w.color_code)
    IN  [w EXCEPT !.buffer[row] =
            [col \in Cols |-> IF col < BUFFER_HEIGHT THEN blank ELSE @[col]]]

\* for col in 0..BUFFER_WIDTH { chars[row][col].write(blank) }
clear_row(w, row) ==
    LET blank == ScreenChar(SPACE, w.color_code)
    IN  [w EXCEPT !.buffer[row] = [col \in Cols |-> blank]]

\* the body of the outer loop with the inner loop over 0..BUFFER_WIDTH
copy_row_full_width(chars, row) ==
    [chars EXCEPT ![row - 1] = [col \in Cols |-> chars[row][col]]]

\* the body of the outer loop of new_line for one row:
\* for col in 0..BUFFER_HEIGHT { chars[row-1][col].write(chars[row][col].read()) }
copy_row(chars, row) ==
    [chars EXCEPT ![row - 1] =
        [col \in Cols |-> IF col \in 0 .. (BUFFER_HEIGHT - 1)
                          THEN chars[row][col] ELSE chars[row - 1][col]]]

\* for row in lo..=hi { copy_row }, in increasing row order; the range is
\* split in halves so that the evaluation depth stays logarithmic
RECURSIVE shift_rows(_, _, _)
shift_rows(chars, lo, hi) ==
    IF lo > hi THEN chars
    ELSE IF lo = hi THEN copy_row(chars, lo)
    ELSE LET mid == (lo + hi) \div 2
         IN  shift_rows(shift_rows(chars, lo, mid), mid + 1, hi)

\* new_line without the call of clear_row
new_line_no_clear(w) ==
    LET shifted == [w EXCEPT !.buffer = shift_rows(w.buffer, 1, BUFFER_HEIGHT - 1)]
    IN  [shifted EXCEPT !.column_position = 0, !.advances = @ + 1,
                         !.line = <<>>, !.scrolled = TRUE]

new_line(w) ==
    LET shifted == [w EXCEPT !.buffer = shift_rows(w.buffer, 1, BUFFER_HEIGHT - 1)]
        cleared == clear_row(shifted, BUFFER_HEIGHT - 1)
    IN  [cleared EXCEPT !.column_position = 0, !.advances = @ + 1,
                         !.line = <<>>, !.scrolled = TRUE]

\* write_byte without the increment of column_position
write_byte_no_increment(w, byte) ==
    IF w.panicked THEN w
    ELSE IF byte = NEWLINE THEN new_line(w)
    ELSE LET w1 == IF w.column_position >= BUFFER_WIDTH THEN new_line(w) ELSE w
             row == BUFFER_HEIGHT - 1
             col == w1.column_position
         IN  IF row \notin Rows \/ col \notin Cols
             THEN [w1 EXCEPT !.panicked = TRUE]
             ELSE [w1 EXCEPT !.buffer[row][col] = ScreenChar(byte, w1.color_code),
                             !.stores = Append(@, <<row, col, byte>>),
                             !.line = Append(@, byte)]

\* write_byte with the line-advance check "column_position > BUFFER_WIDTH"
write_byte_late_check(w, byte) ==
    IF w.panicked THEN w
    ELSE IF byte = NEWLINE THEN new_line(w)
    ELSE LET w1 == IF w.column_position > BUFFER_WIDTH THEN new_line(w) ELSE w
             row == BUFFER_HEIGHT - 1
             col == w1.column_position
         IN  IF row \notin Rows \/ col \notin Cols
             THEN [w1 EXCEPT !.panicked = TRUE]
             ELSE [w1 EXCEPT !.buffer[row][col] = ScreenChar(byte, w1.color_code),
                             !.stores = Append(@, <<row, col, byte>>),
                             !.line = Append(@, byte),
                             !.column_position = @ + 1]

\* write_byte that advances the line and then stores the newline byte as a cell
write_byte_visible_newline(w, byte) ==
    IF w.panicked THEN w
    ELSE LET w1 == IF byte = NEWLINE \/ w.column_position >= BUFFER_WIDTH
                   THEN new_line(w) ELSE w
             row == BUFFER_HEIGHT - 1
             col == w1.column_position
         IN  IF row \notin Rows \/ col \notin Cols
             THEN [w1 EXCEPT !.panicked = TRUE]
             ELSE [w1 EXCEPT !.buffer[row][col] = ScreenChar(byte, w1.color_code),
                             !.stores = Append(@, <<row, col, byte>>),
                             !.line = Append(@, byte),
                             !.column_position = @ + 1]

\* write_byte that advances the line as soon as the row is full
write_byte_eager_wrap(w, byte) ==
    IF w.panicked THEN w
    ELSE IF byte = NEWLINE THEN new_line(w)
    ELSE LET row == BUFFER_HEIGHT - 1
             col == w.column_position
         IN  IF row \notin Rows \/ col \notin Cols
             THEN [w EXCEPT !.panicked = TRUE]
             ELSE LET w1 == [w EXCEPT !.buffer[row][col] = ScreenChar(byte, w.color_code),
                                      !.stores = Append(@, <<row, col, byte>>),
                                      !.line = Append(@, byte),
                                      !.column_position = @ + 1]
                  IN  IF w1.column_position >= BUFFER_WIDTH THEN new_line(w1) ELSE w1

write_byte(w, byte) ==
    IF w.panicked THEN w
    ELSE IF byte = NEWLINE THEN new_line(w)
    ELSE LET w1 == IF w.column_position >= BUFFER_WIDTH THEN new_line(w) ELSE w
             row == BUFFER_HEIGHT - 1
             col == w1.column_position
         IN  IF row \notin Rows \/ col \notin Cols
             THEN [w1 EXCEPT !.panicked = TRUE]
             ELSE [w1 EXCEPT !.buffer[row][col] = ScreenChar(byte, w1.color_code),
                             !.stores = Append(@, <<row, col, byte>>),
                             !.line = Append(@, byte),
                             !.column_position = @ + 1]

\* write_string without the substitution
write_string_byte_raw(w, byte) == write_byte(w, byte)

\* write_string with the printable range 0x20..=0x7f
write_string_byte_wide_range(w, byte) ==
    IF (byte >= PRINTABLE_LO /\ byte <= PRINTABLE_HI + 1) \/ byte = NEWLINE
    THEN write_byte(w, byte)
    ELSE write_byte(w, GLYPH)

\* the body of the loop of write_string
write_string_byte(w, byte) ==
    IF (byte >= PRINTABLE_LO /\ byte <= PRINTABLE_HI) \/ byte = NEWLINE
    THEN write_byte(w, byte)
    ELSE write_byte(w, GLYPH)

\* for byte in s.bytes() { ... } over the bytes s[lo..hi], in order; the
\* range is split in halves so that the evaluation depth stays logarithmic;
\* a panic ends the loop
RECURSIVE write_bytes(_, _, _, _)
write_bytes(w, s, lo, hi) ==
    IF lo > hi THEN w
    ELSE IF lo = hi THEN write_string_byte(w, s[lo])
    ELSE LET mid == (lo + hi) \div 2
             left == write_bytes(w, s, lo, mid)
         IN  IF left.panicked THEN left ELSE write_bytes(left, s, mid + 1, hi)

write_string(w, s) == write_bytes(w, s, 1, Len(s))

\* impl fmt::Write: self.write_string(s); Ok(())
write_str(w, s) == [writer |-> write_string(w, s), result |-> "Ok"]

----------------------------------------------------------------------------
(* Inputs *)
Row(n, byte) == [i \in 1 .. n |-> byte]

\* "abc...", n <= 30 printable bytes
Ramp(n) == [i \in 1 .. n |-> 96 + i]

\* bytes handed to the public write_byte
ByteInputs == {1, NEWLINE, 65}

\* strings (valid UTF-8 byte sequences) handed to write_string
StringInputs ==
    { <<65, 66, NEWLINE, 67>>,      \* "AB\nC"
      <<1>>,
      <<31, 32, 126, 127>>,         \* the ends of the printable range
      Ramp(30),
      Row(80, 99),
      Row(81, 100) }

----------------------------------------------------------------------------
(* Initial state: WRITER as constructed in lazy_static.  The buffer is the
   memory at 0xb8000 as the boot left it; the construction does not clear it *)
ClearedChars(cc) == [row \in Rows |-> [col \in Cols |-> ScreenChar(SPACE, cc)]]

\* text left by the firmware: digits, light gray on black
FirmwareChars ==
    [row \in Rows |-> [col \in Cols |->
        ScreenChar(48 + ((row + col) % 10), ColorCode_new(Color.LightGray, Color.Black))]]

BootScreens == {"cleared", "firmware"}

BootChars(b) ==
    IF b = "cleared" THEN ClearedChars(ColorCode_new(Color.Yellow, Color.Black))
    ELSE FirmwareChars

Callers == 1 .. NumCallers

\* an interrupt handler that calls _print runs on the context of the caller
\* it interrupts; Handler(p) is the handler running on the context of p
Handler(p) == NumCallers + p

Handlers == {Handler(p) : p \in Callers}

Procs == Callers \cup Handlers

Init ==
    /\ column_position = 0
    /\ color_code = ColorCode_new(Color.Yellow, Color.Black)
    /\ boot \in BootScreens
    /\ buffer = BootChars(boot)
    /\ panicked = FALSE
    /\ advances = 0
    /\ stores = <<>>
    /\ line = <<>>
    /\ scrolled = FALSE
    /\ lastOp = [op |-> "none", arg |-> <<>>]
    /\ nops = 0
    /\ locked = FALSE
    /\ pc = [p \in Procs |-> "idle"]
    /\ pending = [p \in Procs |-> <<>>]
    /\ issued = <<>>
    /\ ncalls = 0
    /\ result = [p \in Procs |-> "none"]
    /\ macro = [p \in Procs |-> "none"]
    /\ once = "complete"
    /\ nconstructed = 1
    /\ arg_foreground = Color.Yellow
    /\ arg_background = Color.Black
    /\ encoded = ColorCode_new(Color.Yellow, Color.Black)

----------------------------------------------------------------------------
(* Operations of the Writer, called by one owner of the Writer *)
WriteByte(byte) ==
    /\ nops < MaxOps
    /\ ~panicked
    /\ lastOp' = [op |-> "write_byte", arg |-> <<byte>>]
    /\ nops' = nops + 1
    /\ Commit(write_byte(Self, byte))
    /\ UNCHANGED <<printVars, envVars>>

WriteString(s) ==
    /\ nops < MaxOps
    /\ ~panicked
    /\ lastOp' = [op |-> "write_string", arg |-> s]
    /\ nops' = nops + 1
    /\ Commit(write_string(Self, s))
    /\ UNCHANGED <<printVars, envVars>>

Next ==
    \/ \E byte \in ByteInputs : WriteByte(byte)
    \/ \E s \in StringInputs : WriteString(s)

Spec == Init /\ [][Next]_vars

\* write_string called with runs of 'w' around one, two and three rows long,
\* and write_byte with the newline in between
WrapLengths == {1, 79, 80, 81, 160, 161}

WrapInputs == {Row(k, 119) : k \in WrapLengths}

NextWrap ==
    \/ WriteByte(NEWLINE)
    \/ \E s \in WrapInputs : WriteString(s)

SpecWrap == Init /\ [][NextWrap]_vars

----------------------------------------------------------------------------
(* _print: WRITER.lock().write_fmt(args), called by concurrent callers *)

\* the rendered arguments of print!
PrintInputs == { <<97, 98>>, <<1, NEWLINE>> }

\* the rendered arguments of println!
PrintlnInputs == { <<120, 121>> }

\* _print is entered with the rendered text s
Call(p, s) ==
    /\ pc[p] = "idle"
    /\ ncalls < MaxCalls
    /\ pc' = [pc EXCEPT ![p] = "lock"]
    /\ pending' = [pending EXCEPT ![p] = s]
    /\ issued' = Append(issued, s)
    /\ ncalls' = ncalls + 1
    /\ result' = [result EXCEPT ![p] = "none"]
    /\ UNCHANGED <<writerVars, opVars, locked, envVars>>

\* println!: the format string "{}\n" applied to the rendered arguments
println_args(text) == text \o <<NEWLINE>>

\* print!(..): _print(format_args!(..))
MacroPrint(p, text) ==
    /\ Call(p, text)
    /\ macro' = [macro EXCEPT ![p] = "print"]

\* println!(..): print!("{}\n", format_args!(..))
MacroPrintln(p, text) ==
    /\ Call(p, println_args(text))
    /\ macro' = [macro EXCEPT ![p] = "println"]

\* lock() that gives up when the lock is taken (try_lock)
Acquire_or_give_up(p) ==
    /\ pc[p] = "lock"
    /\ locked' = TRUE
    /\ pc' = [pc EXCEPT ![p] = IF locked THEN "idle" ELSE "write"]
    /\ UNCHANGED <<writerVars, opVars, pending, issued, ncalls, macro, result, envVars>>

\* lock() that takes the lock whatever its state
Acquire_unchecked(p) ==
    /\ pc[p] = "lock"
    /\ locked' = TRUE
    /\ pc' = [pc EXCEPT ![p] = "write"]
    /\ UNCHANGED <<writerVars, opVars, pending, issued, ncalls, macro, result, envVars>>

\* WRITER.lock(): the spin lock is taken when it is free; a caller that
\* finds it taken retries (stutters)
Acquire(p) ==
    /\ pc[p] = "lock"
    /\ ~locked
    /\ locked' = TRUE
    /\ pc' = [pc EXCEPT ![p] = "write"]
    /\ UNCHANGED <<writerVars, opVars, pending, issued, ncalls, macro, result, envVars>>

\* a write that drops the guard after every byte and locks again for the
\* next one
WriteNext_yielding(p) ==
    /\ pc[p] = "write"
    /\ pending[p] # <<>>
    /\ ~panicked
    /\ Commit(write_string_byte(Self, Head(pending[p])))
    /\ pending' = [pending EXCEPT ![p] = Tail(@)]
    /\ locked' = (Tail(pending[p]) = <<>>)
    /\ pc' = [pc EXCEPT ![p] = IF Tail(pending[p]) = <<>> THEN "write" ELSE "lock"]
    /\ UNCHANGED <<opVars, issued, ncalls, macro, result, envVars>>

\* one iteration of the loop of write_string, run through the guard
WriteNext(p) ==
    /\ pc[p] = "write"
    /\ pending[p] # <<>>
    /\ ~panicked
    /\ Commit(write_string_byte(Self, Head(pending[p])))
    /\ pending' = [pending EXCEPT ![p] = Tail(@)]
    /\ UNCHANGED <<opVars, locked, pc, issued, ncalls, macro, result, envVars>>

\* _print without the drop of the guard (the guard is leaked)
Release_keep_lock(p) ==
    /\ pc[p] = "write"
    /\ pending[p] = <<>>
    /\ result' = [result EXCEPT ![p] = write_str(Self, pending[p]).result]
    /\ pc' = [pc EXCEPT ![p] = "idle"]
    /\ UNCHANGED <<writerVars, opVars, locked, pending, issued, ncalls, macro, envVars>>

\* the loop of write_string is over: write_str returns, unwrap() takes the
\* result (it panics on an Err, with the guard still alive), and the guard is
\* dropped at the end of the statement
Release(p) ==
    /\ pc[p] = "write"
    /\ pending[p] = <<>>
    /\ LET r == write_str(Self, pending[p]).result
       IN  /\ result' = [result EXCEPT ![p] = r]
           /\ locked' = IF r = "Ok" THEN FALSE ELSE locked
           /\ pc' = [pc EXCEPT ![p] = IF r = "Ok" THEN "idle" ELSE "panicked"]
    /\ UNCHANGED <<writerVars, opVars, pending, issued, ncalls, macro, envVars>>

NextPrint ==
    \/ \E p \in Callers : \E s \in PrintInputs : MacroPrint(p, s)
    \/ \E p \in Callers : \E s \in PrintlnInputs : MacroPrintln(p, s)
    \/ \E p \in Callers : Acquire(p)
    \/ \E p \in Callers : WriteNext(p)
    \/ \E p \in Callers : Release(p)

SpecPrint == Init /\ [][NextPrint]_vars

\* the step WriteNext(p) as pending shows it: the holder of the lock takes
\* the next byte of its text
TakeByte(p) ==
    /\ pc[p] = "write"
    /\ pending[p] # <<>>
    /\ ~panicked
    /\ pending' = [pending EXCEPT ![p] = Tail(@)]

\* fair scheduling of the callers: a caller inside write_fmt keeps running
\* (the code is synchronous and runs to completion), and a caller spinning in
\* lock() retries for ever, so it takes the lock if the lock is free at
\* infinitely many of its attempts
Fairness ==
    \A p \in Callers :
        /\ WF_pending(TakeByte(p))
        /\ WF_vars(Release(p))
        /\ SF_vars(Acquire(p))

FairPrint == SpecPrint /\ Fairness

----------------------------------------------------------------------------
(* _print called from interrupt handlers as well: the interrupted context
   resumes only when the _print call of its handler has returned *)

\* the code of q is executing: q is a handler, or a caller that no handler
\* has interrupted
Running(q) == IF q \in Handlers THEN TRUE ELSE pc[Handler(q)] = "idle"

\* the rendered text a handler hands to _print: "!"
IrqInputs == { <<33>> }

\* the interrupts taken so far; a context takes at most one
IrqsTaken == Cardinality({h \in Handlers : pc[h] # "idle" \/ result[h] # "none"})

\* an interrupt arrives on the context of p, wherever p is, and its handler
\* enters _print
Interrupt(p, s) ==
    /\ IrqsTaken < MaxIrqs
    /\ result[Handler(p)] = "none"
    /\ MacroPrint(Handler(p), s)

NextIrq ==
    \/ \E p \in Callers : \E s \in PrintInputs : Running(p) /\ MacroPrint(p, s)
    \/ \E p \in Callers : \E s \in IrqInputs : Interrupt(p, s)
    \/ \E q \in Procs : Running(q) /\ Acquire(q)
    \/ \E q \in Procs : Running(q) /\ WriteNext(q)
    \/ \E q \in Procs : Running(q) /\ Release(q)

SpecIrq == Init /\ [][NextIrq]_vars

----------------------------------------------------------------------------
(* lazy_static! { pub static ref WRITER }: the Writer is built by the first
   dereference of WRITER, through a Once cell (incomplete, running, complete) *)

\* what the storage of WRITER may hold before the initializer has run
Garbage == {0, 255}

InitLazy ==
    /\ column_position \in Garbage
    /\ color_code \in Garbage
    /\ boot \in BootScreens
    /\ buffer = BootChars(boot)
    /\ panicked = FALSE
    /\ advances = 0
    /\ stores = <<>>
    /\ line = <<>>
    /\ scrolled = FALSE
    /\ lastOp = [op |-> "none", arg |-> <<>>]
    /\ nops = 0
    /\ locked = FALSE
    /\ pc = [p \in Procs |-> "idle"]
    /\ pending = [p \in Procs |-> <<>>]
    /\ issued = <<>>
    /\ ncalls = 0
    /\ result = [p \in Procs |-> "none"]
    /\ macro = [p \in Procs |-> "none"]
    /\ once = "incomplete"
    /\ nconstructed = 0
    /\ arg_foreground = Color.Yellow
    /\ arg_background = Color.Black
    /\ encoded = ColorCode_new(Color.Yellow, Color.Black)

\* a caller enters _print with the rendered text s and dereferences WRITER
CallLazy(p, s) ==
    /\ pc[p] = "idle"
    /\ ncalls < MaxCalls
    /\ pc' = [pc EXCEPT ![p] = "deref"]
    /\ macro' = [macro EXCEPT ![p] = "print"]
    /\ pending' = [pending EXCEPT ![p] = s]
    /\ issued' = Append(issued, s)
    /\ ncalls' = ncalls + 1
    /\ result' = [result EXCEPT ![p] = "none"]
    /\ UNCHANGED <<writerVars, opVars, locked, envVars>>

\* a first access that does not claim the cell atomically: every caller that
\* finds it not complete runs the initializer
DerefStart_racy(p) ==
    /\ pc[p] = "deref"
    /\ once # "complete"
    /\ once' = "running"
    /\ pc' = [pc EXCEPT ![p] = "construct"]
    /\ UNCHANGED <<writerVars, opVars, locked, pending, issued, ncalls, macro, result,
                   boot, nconstructed, colorVars>>

\* the first access: the caller that moves the cell from incomplete to
\* running (one compare-and-swap) is the one that runs the initializer
DerefStart(p) ==
    /\ pc[p] = "deref"
    /\ once = "incomplete"
    /\ once' = "running"
    /\ pc' = [pc EXCEPT ![p] = "construct"]
    /\ UNCHANGED <<writerVars, opVars, locked, pending, issued, ncalls, macro, result,
                   boot, nconstructed, colorVars>>

\* an access while another caller runs the initializer: the caller waits
DerefWait(p) ==
    /\ pc[p] = "deref"
    /\ once = "running"
    /\ pc' = [pc EXCEPT ![p] = "wait"]
    /\ UNCHANGED <<writerVars, opVars, locked, pending, issued, ncalls, macro, result,
                   envVars>>

\* an access that finds the cell complete uses the Writer as it is
DerefDone(p) ==
    /\ pc[p] \in {"deref", "wait"}
    /\ once = "complete"
    /\ pc' = [pc EXCEPT ![p] = "lock"]
    /\ UNCHANGED <<writerVars, opVars, locked, pending, issued, ncalls, macro, result,
                   envVars>>

\* the initializer: Mutex::new(Writer { column_position: 0, color_code:
\* ColorCode::new(Color::Yellow, Color::Black), buffer: 0xb8000 }); the memory
\* of the buffer is not written
Construct(p) ==
    /\ pc[p] = "construct"
    /\ column_position' = 0
    /\ color_code' = ColorCode_new(Color.Yellow, Color.Black)
    /\ locked' = FALSE
    /\ once' = "complete"
    /\ nconstructed' = nconstructed + 1
    /\ pc' = [pc EXCEPT ![p] = "lock"]
    /\ UNCHANGED <<buffer, panicked, advances, stores, line, scrolled, opVars,
                   pending, issued, ncalls, macro, result, boot, colorVars>>

NextLazy ==
    \/ \E p \in Callers : \E s \in PrintInputs : CallLazy(p, s)
    \/ \E p \in Callers : DerefStart(p)
    \/ \E p \in Callers : DerefWait(p)
    \/ \E p \in Callers : DerefDone(p)
    \/ \E p \in Callers : Construct(p)
    \/ \E p \in Callers : Acquire(p)
    \/ \E p \in Callers : WriteNext(p)
    \/ \E p \in Callers : Release(p)

SpecLazy == InitLazy /\ [][NextLazy]_vars

----------------------------------------------------------------------------
(* ColorCode::new as a function of its own: called with any two colors *)
Encode(fg, bg) ==
    /\ arg_foreground' = fg
    /\ arg_background' = bg
    /\ encoded' = ColorCode_new(fg, bg)
    /\ UNCHANGED <<writerVars, opVars, printVars, boot, once, nconstructed>>

NextColor == \E fg \in Palette : \E bg \in Palette : Encode(fg, bg)

SpecColor == Init /\ [][NextColor]_vars

----------------------------------------------------------------------------
(* Helpers of the properties *)
LAST_ROW == BUFFER_HEIGHT - 1

\* a cell as the display reads it
CellOf(byte, cc) == [ascii_character |-> byte, color_code |-> cc]

Blank == CellOf(32, color_code)

NoNewline(s) == \A i \in 1 .. Len(s) : s[i] # NEWLINE

IsPrintable(byte) == byte >= 32 /\ byte <= 126

AllPrintable(s) == \A i \in 1 .. Len(s) : IsPrintable(s[i])

\* the byte write_string is specified to render for an input byte
Rendered(byte) == IF IsPrintable(byte) \/ byte = NEWLINE THEN byte ELSE 254

----------------------------------------------------------------------------
\* C1: after any line-advance (write_byte of a newline, or of another byte at
\* column 80) every cell (r-1, c), r in 1..24, c in 0..79, holds the old cell
\* (r, c), and every cell of row 24 is a blank with the active color (but
\* for the cell the triggering byte is then stored in).
C1_LineAdvanceShiftsEveryCell ==
    [][\A byte \in ByteInputs :
          (WriteByte(byte) /\ (byte = NEWLINE \/ column_position >= BUFFER_WIDTH))
          => /\ \A r \in 1 .. LAST_ROW : \A c \in Cols :
                   buffer'[r - 1][c] = buffer[r][c]
             /\ \A c \in Cols :
                   (byte = NEWLINE \/ c # 0) => buffer'[LAST_ROW][c] = Blank]_vars

\* C2: write_byte of a non-newline byte at column < 80 stores (byte, color)
\* at (24, column), adds 1 to column and changes no other cell; no operation
\* ever stores a byte in a row other than the last one.
C2_WriteByteFrame ==
    [][/\ \A byte \in ByteInputs \ {NEWLINE} :
            (column_position < BUFFER_WIDTH /\ WriteByte(byte))
            => /\ buffer'[LAST_ROW][column_position] = CellOf(byte, color_code)
               /\ column_position' = column_position + 1
               /\ \A r \in Rows : \A c \in Cols :
                     (r # LAST_ROW \/ c # column_position) => buffer'[r][c] = buffer[r][c]
               /\ stores' = << <<LAST_ROW, column_position, byte>> >>
       /\ \A i \in 1 .. Len(stores') : stores'[i][1] = LAST_ROW]_vars

C2_Witness ==
    /\ lastOp.op = "write_byte"
    /\ lastOp.arg # <<NEWLINE>>
    /\ advances = 0
    /\ column_position > 1
    /\ stores = << <<LAST_ROW, column_position - 1, lastOp.arg[1]>> >>
    /\ buffer[LAST_ROW][column_position - 1].ascii_character = lastOp.arg[1]

\* C3: column is always in 0..80, and every cell store of write_byte uses
\* row 24 and a column in 0..79: no index is ever out of bounds.
C3_IndicesInBounds ==
    /\ column_position \in 0 .. BUFFER_WIDTH
    /\ ~panicked
    /\ \A i \in 1 .. Len(stores) :
          stores[i][1] = LAST_ROW /\ stores[i][2] \in 0 .. (BUFFER_WIDTH - 1)

\* a byte was written when the row was full
C3_Witness ==
    /\ lastOp.op = "write_byte"
    /\ advances = 1
    /\ column_position = 1
    /\ stores = << <<LAST_ROW, 0, lastOp.arg[1]>> >>

\* C4: write_byte of the newline byte stores no cell (the cells it writes
\* are copies of the cell below and the blanks of row 24), no cell carries
\* the newline byte afterwards, and column is 0.
C4_NewlineWritesNoVisibleCell ==
    [][WriteByte(NEWLINE)
       => /\ column_position' = 0
          /\ stores' = <<>>
          /\ \A c \in Cols : buffer'[LAST_ROW][c] = Blank
          /\ \A r \in 0 .. (LAST_ROW - 1) : \A c \in Cols :
                buffer'[r][c] \in {buffer[r][c], buffer[r + 1][c]}
          /\ \A r \in Rows : \A c \in Cols :
                buffer'[r][c].ascii_character # NEWLINE]_vars

C4_Witness ==
    /\ lastOp = [op |-> "write_byte", arg |-> <<NEWLINE>>]
    /\ column_position = 0
    /\ advances = 1
    /\ buffer[LAST_ROW - 1][0].ascii_character # SPACE

\* C5: from column 0, 80 bytes without a newline cause no line-advance and
\* leave column = 80; the 81st byte causes exactly one line-advance, is
\* stored at (24, 0) and leaves column = 1.
C5_WrapOn81stByte ==
    [][/\ \A s \in StringInputs :
            (column_position = 0 /\ NoNewline(s) /\ WriteString(s))
            => /\ Len(s) <= BUFFER_WIDTH
                    => advances' = 0 /\ column_position' = Len(s)
               /\ Len(s) = BUFFER_WIDTH + 1
                    => /\ advances' = 1
                       /\ column_position' = 1
                       /\ stores'[BUFFER_WIDTH + 1] = <<LAST_ROW, 0, Rendered(s[BUFFER_WIDTH + 1])>>
                       /\ buffer'[LAST_ROW][0]
                            = CellOf(Rendered(s[BUFFER_WIDTH + 1]), color_code)
       /\ \A byte \in ByteInputs \ {NEWLINE} :
            (column_position = BUFFER_WIDTH /\ WriteByte(byte))
            => /\ advances' = 1
               /\ column_position' = 1
               /\ buffer'[LAST_ROW][0] = CellOf(byte, color_code)]_vars

C5_Witness ==
    /\ lastOp.op = "write_string"
    /\ Len(lastOp.arg) = BUFFER_WIDTH + 1
    /\ NoNewline(lastOp.arg)
    /\ Len(stores) = BUFFER_WIDTH + 1
    /\ advances = 1
    /\ column_position = 1

\* C6: write_string forwards a byte in 0x20..=0x7e, or a newline, unchanged
\* and writes exactly one 0xfe cell in place of any other byte, at the
\* position write_byte stores at; the original value of a replaced byte is
\* never stored.
C6_WriteStringSubstitutes ==
    [][\A s \in StringInputs :
          WriteString(s)
          => LET shown == SelectSeq([i \in 1 .. Len(s) |-> Rendered(s[i])],
                                    LAMBDA b : b # NEWLINE)
                 n == Len(stores')
             IN  /\ [i \in 1 .. n |-> stores'[i][3]] = shown
                 /\ \A i \in 1 .. n : stores'[i][3] \in (32 .. 126) \cup {254}
                 /\ n > 0 => buffer'[stores'[n][1]][stores'[n][2]]
                                = CellOf(shown[n], color_code)
                 /\ (Len(s) = 1 /\ ~IsPrintable(s[1]) /\ s[1] # NEWLINE)
                      => LET col == IF column_position < BUFFER_WIDTH
                                    THEN column_position ELSE 0
                         IN  /\ stores' = << <<LAST_ROW, col, 254>> >>
                             /\ buffer'[LAST_ROW][col] = CellOf(254, color_code)
                             /\ column_position' = col + 1]_vars

C6_Witness ==
    /\ lastOp = [op |-> "write_string", arg |-> <<1>>]
    /\ column_position > 1
    /\ stores = << <<LAST_ROW, column_position - 1, 254>> >>
    /\ buffer[LAST_ROW][column_position - 1].ascii_character = 254

CellsRenderable ==
    \A r \in Rows : \A c \in Cols :
        IsPrintable(buffer[r][c].ascii_character) \/ buffer[r][c].ascii_character = 254

\* C7 as stated: starting from a cleared grid, whatever operations are
\* called, write_byte with any byte included, every cell holds a printable
\* byte or 0xfe.
C7_EveryCellRenderable == boot = "cleared" => CellsRenderable

\* C7 as amended: from a cleared grid, write_string calls, and write_byte
\* calls whose byte is printable, the newline or 0xfe, leave every cell
\* holding a printable byte or 0xfe.
C7_SanitizedWritesKeepCellsRenderable ==
    /\ buffer = ClearedChars(color_code) => CellsRenderable
    /\ [][(/\ \/ \E s \in StringInputs : WriteString(s)
              \/ \E byte \in ByteInputs :
                    /\ IsPrintable(byte) \/ byte = NEWLINE \/ byte = 254
                    /\ WriteByte(byte)
           /\ CellsRenderable)
          => CellsRenderable']_vars

C7_Witness ==
    /\ CellsRenderable
    /\ lastOp = [op |-> "write_string", arg |-> <<31, 32, 126, 127>>]
    /\ nops > 1
    /\ \E c \in Cols : buffer[LAST_ROW][c].ascii_character = 254
    /\ \E c \in Cols : buffer[LAST_ROW][c].ascii_character = 126

\* C8: from column 0, writing n < 80 printable bytes leaves them, in order
\* and with the active color, in the cells (24, 0..n-1), and column = n.
C8_RoundTrip ==
    [][\A s \in StringInputs :
          (column_position = 0 /\ Len(s) < BUFFER_WIDTH /\ AllPrintable(s)
             /\ WriteString(s))
          => /\ column_position' = Len(s)
             /\ \A i \in 1 .. Len(s) :
                   buffer'[LAST_ROW][i - 1] = CellOf(s[i], color_code)]_vars

C8_Witness ==
    /\ lastOp = [op |-> "write_string", arg |-> Ramp(30)]
    /\ column_position = 30
    /\ advances = 0
    /\ stores[1] = <<LAST_ROW, 0, 97>>
    /\ buffer[LAST_ROW][29].ascii_character = 126

ABnC == <<65, 66, NEWLINE, 67>>

ABnC_Expected ==
    [r \in Rows |-> [c \in Cols |->
        IF r = LAST_ROW /\ c = 0 THEN CellOf(67, color_code)
        ELSE IF r = LAST_ROW - 1 /\ c = 0 THEN CellOf(65, color_code)
        ELSE IF r = LAST_ROW - 1 /\ c = 1 THEN CellOf(66, color_code)
        ELSE Blank]]

\* C9: from a cleared grid and column 0, writing "AB\nC" leaves row 24 = "C"
\* and blanks, row 23 = "AB" and blanks, every other row blank, column = 1.
C9_ABnC ==
    [][(/\ buffer = ClearedChars(color_code)
        /\ column_position = 0
        /\ WriteString(ABnC))
       => /\ buffer' = ABnC_Expected
          /\ column_position' = 1]_vars

C9_Witness ==
    /\ nops = 1
    /\ boot = "cleared"
    /\ lastOp = [op |-> "write_string", arg |-> ABnC]
    /\ column_position = 1
    /\ buffer[LAST_ROW - 1][1].ascii_character = 66
    /\ buffer[LAST_ROW][0].ascii_character = 67

----------------------------------------------------------------------------
Holders == {p \in Procs : pc[p] = "write"}

InitWriter ==
    [column_position |-> 0, color_code |-> ColorCode_new(Color.Yellow, Color.Black),
     buffer |-> BootChars(boot),
     panicked |-> FALSE, advances |-> 0, stores |-> <<>>,
     line |-> <<>>, scrolled |-> FALSE]

Orders(n) == {f \in [1 .. n -> 1 .. n] : \A i, j \in 1 .. n : i # j => f[i] # f[j]}

\* the calls issued so far, executed one after another in the given order
RECURSIVE RunInOrder(_, _, _)
RunInOrder(w, order, i) ==
    IF i > Len(order) THEN w
    ELSE RunInOrder(write_string(w, issued[order[i]]), order, i + 1)

Serialized ==
    \E order \in Orders(Len(issued)) :
        LET w == RunInOrder(InitWriter, order, 1)
        IN  w.column_position = column_position /\ w.buffer = buffer

\* C10: at most one caller holds the WRITER lock, the grid and column change
\* only in a step of the caller that holds it, and when no call is in
\* progress the grid and column are those of the issued calls executed one
\* after another in some order.
C10_MutualExclusion ==
    /\ [](/\ Cardinality(Holders) <= 1
          /\ (Holders # {} => locked)
          /\ ((\A p \in Callers : pc[p] = "idle") => Serialized))
    /\ [][<<column_position, buffer>>' # <<column_position, buffer>>
            => \E p \in Callers :
                  /\ Holders = {p}
                  /\ locked
                  /\ pending'[p] = Tail(pending[p])]_vars

\* one caller is in the middle of its text while another one waits for the
\* lock
C10_Witness ==
    \E p, q \in Callers :
        /\ pc[p] = "write"
        /\ pc[q] = "lock"
        /\ locked
        /\ Len(pending[p]) = 1
        /\ Len(issued) >= 2
        /\ column_position > 0

----------------------------------------------------------------------------
\* C11: the lock is held exactly while some caller is between lock() and the
\* end of its _print statement; a caller that leaves _print has released it
\* and got Ok from write_fmt: no call returns an error and unwrap() never
\* panics.
C11_LockReleasedOnReturn ==
    /\ [](/\ locked <=> Holders # {}
          /\ \A p \in Callers : result[p] # "Err" /\ pc[p] # "panicked")
    /\ [][\A p \in Callers :
            (pc[p] = "write" /\ pc'[p] # "write")
            => /\ pc'[p] = "idle"
               /\ ~locked'
               /\ result'[p] = "Ok"]_vars

\* a caller has returned from _print while another one was waiting
C11_Witness ==
    \E p, q \in Callers :
        /\ pc[p] = "idle"
        /\ result[p] = "Ok"
        /\ ~locked
        /\ pc[q] = "lock"
        /\ column_position > 0

----------------------------------------------------------------------------
\* the handler running on the context of p waits for the lock that the
\* interrupted p holds
Stuck(p) == pc[p] = "write" /\ pc[Handler(p)] = "lock"

\* C12: when an interrupt handler calls _print on a context that holds the
\* WRITER lock, nothing recovers: the handler keeps spinning, the holder
\* stays interrupted, the lock stays taken, the grid and column never change
\* again and no _print call in progress ever returns.
C12_ReentrantDeadlock ==
    [][\A p \in Callers :
          Stuck(p)
          => /\ pc'[p] = "write" /\ pc'[Handler(p)] = "lock"
             /\ locked'
             /\ pending'[p] = pending[p]
             /\ <<column_position, buffer>>' = <<column_position, buffer>>
             /\ \A q \in Procs : pc[q] # "idle" => pc'[q] # "idle"]_vars

\* the deadlock is reached in the middle of a text
C12_Witness ==
    \E p \in Callers :
        /\ Stuck(p)
        /\ locked
        /\ pending[p] # <<>>
        /\ column_position > 0

----------------------------------------------------------------------------
Accessing == {p \in Callers : pc[p] \in {"lock", "write"}}

\* C13: the initializer of WRITER runs exactly once, on the first access, and
\* leaves column = 0 and color = Yellow on Black; of the callers that race on
\* the first access one runs it and the others wait; no caller uses the
\* Writer before it is built, and once it is built no access runs the
\* initializer again or resets column, color or grid.
C13_ConstructedOnce ==
    /\ [](/\ nconstructed <= 1
          /\ (once = "complete") <=> (nconstructed = 1)
          /\ Cardinality({p \in Callers : pc[p] = "construct"}) <= 1
          /\ Accessing # {} => once = "complete")
    /\ [][/\ nconstructed' # nconstructed
               => /\ nconstructed = 0 /\ nconstructed' = 1
                  /\ once' = "complete"
                  /\ column_position' = 0
                  /\ color_code' = 14
                  /\ buffer' = buffer
          /\ once = "complete"
               => /\ once' = "complete"
                  /\ nconstructed' = nconstructed
                  /\ color_code' = color_code
                  /\ <<column_position, buffer>>' # <<column_position, buffer>>
                       => \E p \in Callers :
                             pc[p] = "write" /\ pending'[p] = Tail(pending[p])]_vars

\* a caller has built the Writer and written to it while the caller that
\* raced with it on the first access still waits
C13_Witness ==
    \E p, q \in Callers :
        /\ pc[p] = "write"
        /\ pc[q] = "wait"
        /\ nconstructed = 1
        /\ once = "complete"
        /\ column_position > 0
        /\ color_code = 14

----------------------------------------------------------------------------
\* C14: for every foreground and background of the 16 palette colors,
\* ColorCode::new(fg, bg) is bg*16 + fg, lies in 0..255, its low nibble is
\* the foreground and its high nibble the background, and no other pair of
\* colors has the same code.
C14_ColorCodeEncoding ==
    /\ arg_foreground \in 0 .. 15 /\ arg_background \in 0 .. 15
    /\ encoded = arg_background * 16 + arg_foreground
    /\ encoded \in 0 .. 255
    /\ encoded % 16 = arg_foreground
    /\ encoded \div 16 = arg_background
    /\ \A fg \in 0 .. 15 : \A bg \in 0 .. 15 :
          ColorCode_new(fg, bg) = encoded
             => fg = arg_foreground /\ bg = arg_background

\* LightGray on White: every bit of the byte but one is set
C14_Witness ==
    /\ arg_foreground = 7
    /\ arg_background = 15
    /\ encoded = 247

----------------------------------------------------------------------------
\* C15: column is the next free slot of the last row: in every state reached
\* from a cleared grid, or after at least one line-advance, the cells
\* (24, c) with c < column hold, in order, the bytes written since the most
\* recent line-advance, and every cell (24, c) with column <= c < 80 is a
\* blank with the active color.
C15_ColumnIsNextFreeSlot ==
    (boot = "cleared" \/ scrolled)
    => /\ column_position = Len(line)
       /\ \A c \in Cols :
             IF c < column_position
             THEN buffer[LAST_ROW][c] = CellOf(line[c + 1], color_code)
             ELSE buffer[LAST_ROW][c] = Blank

\* a row that held firmware text was filled, advanced, and written to again
C15_Witness ==
    /\ boot = "firmware"
    /\ scrolled
    /\ nops > 1
    /\ column_position \in 1 .. (BUFFER_WIDTH - 1)
    /\ buffer[LAST_ROW][column_position - 1].ascii_character = line[column_position]
    /\ buffer[LAST_ROW][column_position].ascii_character = 32
    /\ buffer[LAST_ROW - 1][BUFFER_WIDTH - 1].ascii_character # 32

----------------------------------------------------------------------------
----------------------------------------------------------------------------
\* a println! call that is between its lock() and the release of the lock
InPrintln(p) == pc[p] = "write" /\ macro[p] = "println"

\* C17: println! emits the text and then a newline under one acquisition of
\* the lock: the bytes handed to _print are the text followed by the newline;
\* from its lock() until all of them are written the caller keeps the lock
\* and every change of the grid or column is the write of its next byte, so
\* no byte of another caller lands in between; and when the last byte is
\* written, before the lock is released, column is 0.
C17_PrintlnInOneAcquisition ==
    /\ [](\A p \in Callers :
            /\ (macro[p] = "println" /\ pc[p] = "lock")
                 => \E text \in PrintlnInputs : pending[p] = text \o <<10>>
            /\ (InPrintln(p) /\ pending[p] # <<>>)
                 => pending[p][Len(pending[p])] = 10
            /\ InPrintln(p) => locked /\ Holders = {p}
            /\ (InPrintln(p) /\ pending[p] = <<>>) => column_position = 0)
    /\ [][\A p \in Callers :
            (InPrintln(p) /\ pending[p] # <<>>)
            => /\ pc'[p] = "write"
               /\ locked'
               /\ \A q \in Callers \ {p} : pc'[q] # "write"
               /\ <<column_position, buffer>>' # <<column_position, buffer>>
                    => pending'[p] = Tail(pending[p])
               /\ pending'[p] = <<>> => column_position' = 0]_vars

\* a println! has written its text and its newline and still holds the lock
\* another caller waits for: the text is on the row above, column is 0
C17_Witness ==
    \E p, q \in Callers :
        /\ InPrintln(p)
        /\ pending[p] = <<>>
        /\ locked
        /\ pc[q] = "lock"
        /\ column_position = 0
        /\ buffer[LAST_ROW - 1][0].ascii_character = 120
        /\ buffer[LAST_ROW - 1][1].ascii_character = 121

----------------------------------------------------------------------------
Waiting == {p \in Callers : pc[p] = "lock"}

----------------------------------------------------------------------------
\* C19: from column 0, write_string of k >= 1 bytes without a newline makes
\* exactly (k-1) div 80 line-advances and leaves column = ((k-1) mod 80) + 1;
\* the line-advance of a full row is made by the next byte written: a write
\* that fills the row leaves column = 80, and a write_string that starts at
\* column 80 first advances the line and stores its first byte at (24, 0).
C19_WrapCount ==
    [][\A s \in WrapInputs :
          WriteString(s)
          => LET k == Len(s)
             IN  /\ column_position = 0
                      => /\ advances' = (k - 1) \div 80
                         /\ column_position' = ((k - 1) % 80) + 1
                         /\ Len(stores') = k
                 /\ column_position + k = 80
                      => advances' = 0 /\ column_position' = 80
                 /\ column_position = 80
                      => /\ advances' = 1 + ((k - 1) \div 80)
                         /\ stores'[1] = <<24, 0, s[1]>>
                         /\ column_position' = ((k - 1) % 80) + 1]_vars

\* 161 bytes written from column 0: two line-advances, one byte on the row
C19_Witness ==
    /\ lastOp.op = "write_string"
    /\ Len(lastOp.arg) = 161
    /\ NoNewline(lastOp.arg)
    /\ Len(stores) = 161
    /\ advances = 2
    /\ column_position = 1
    /\ Len(line) = 1
    /\ nops > 1

----------------------------------------------------------------------------
\* C20: no operation changes the color of the Writer: color_code is 0x0E in
\* every state, and every cell an operation changes either carries the color
\* 0x0E (write_byte, clear_row) or is the copy of an older cell of the same
\* column that new_line moved up; on a grid that started cleared every cell
\* carries 0x0E.
C20_ColorNeverChanges ==
    /\ [](/\ color_code = 14
          /\ boot = "cleared"
               => \A r \in Rows : \A c \in Cols : buffer[r][c].color_code = 14)
    /\ [][/\ color_code' = color_code
          /\ \A r \in Rows : \A c \in Cols :
                buffer'[r][c] # buffer[r][c]
                => \/ buffer'[r][c].color_code = 14
                   \/ \E below \in (r + 1) .. 24 : buffer'[r][c] = buffer[below][c]
          /\ \A i \in 1 .. Len(line') : buffer'[24][i - 1].color_code = 14
          /\ advances' > 0
               => \A c \in Cols : buffer'[24][c].color_code = 14]_vars

\* on a screen of light gray firmware text a line was advanced and bytes
\* were written: the last row is yellow on black, the first row is not
C20_Witness ==
    /\ boot = "firmware"
    /\ scrolled
    /\ line # <<>>
    /\ color_code = 14
    /\ buffer[24][0].color_code = 14
    /\ buffer[24][79].color_code = 14
    /\ buffer[24][79].ascii_character = 32
    /\ buffer[0][79].color_code = 7

====
